---- MODULE Spec2Model ----
(* Sardines.py (the shark chase game): the simulation core of SharkChaseGame. *)
(* Units: time in milliseconds (dt = clock.tick(FPS) / 1000.0 seconds is kept  *)
(* as the integer number of milliseconds tick returned), positions in          *)
(* thousandths of a pixel, score in thousandths of a point, unit vectors in    *)
(* thousandths, Shark.speed in 1/SpeedUnit pixels per second.                  *)
EXTENDS Integers, Sequences, FiniteSets, TLC

VARIABLES
    game,   \* the SharkChaseGame object (its fields, Sardines.py 210-231)
    pc,     \* where run() is: "tick" | "events" | "exit"
    dt,     \* the dt of the current frame of run(), in ms
    now,    \* pygame.time.get_ticks()
    frame   \* what the last update() call did (history, for the properties)

vars == <<game, pc, dt, now, frame>>

\* ---------------------------------------------------------------- bounds
\* The inputs explored, one world per specification (see World below):
\* Spec follows the menus, the name entry and short runs of a player who
\* does not steer; PlaySpec (and LiveSpec, the same under fairness) follows
\* runs long enough for power-ups (the first spawns after 10 s); ChaseSpec
\* follows runs with several sharks and score files of every shape; MoveSpec
\* follows a player steering with every combination of held keys; PickSpec
\* follows runs of 30 s with power-ups on and off the player; LoadSpec
\* starts from a score file that may not be readable.
MaxNow == 8000
PlayMaxNow == 14001
PickMaxNow == 30003
ChaseMaxNow == 8000
MoveMaxNow == 3000
MaxNameLen == 2
DtSet == {0, 2000}
PlayDtSet == {0, 2000, 10001}
PickDtSet == {0, 10001}
ChaseDtSet == {0, 2000, 3000}
MoveDtSet == {0, 1000}
Jitter == {<<0, 0>>, <<300, -300>>}
PlayJitter == {<<0, 0>>}
Levels == 0..4
SpawnYs == {300}
SpawnXs == {400}
PowerupSpots == {<<420, 320>>}
PickSpots == {<<420, 320>>, <<100, 100>>}
InputChars == {"r", " "}
MotionPoints == {<<0, 0>>}
ClickPoints == {<<400, 300>>, <<400, 360>>, <<400, 440>>, <<400, 500>>, <<400, 570>>}

\* ------------------------------------------------------------- constants
SCREEN_WIDTH == 800
SCREEN_HEIGHT == 600
SpeedUnit == 16
Scale == 1000

MENU == "menu"
PLAYING == "playing"
GAMEOVER == "gameover"
NAME_INPUT == "name_input"

DefaultName == <<"P", "l", "a", "y", "e", "r">>

\* ------------------------------------------------------------ arithmetic
Abs(a) == IF a < 0 THEN -a ELSE a
Max(a, b) == IF a > b THEN a ELSE b
Min(a, b) == IF a < b THEN a ELSE b
\* float -> int conversion and float division, rounding toward zero
TruncDiv(a, b) == IF a >= 0 THEN a \div b ELSE -((-a) \div b)

RECURSIVE SqrtSearch(_, _, _)
SqrtSearch(n, lo, hi) ==
    IF lo >= hi THEN lo
    ELSE LET mid == (lo + hi + 1) \div 2
         IN IF mid * mid <= n THEN SqrtSearch(n, mid, hi)
            ELSE SqrtSearch(n, lo, mid - 1)
ISqrt(n) == SqrtSearch(n, 0, Min(n, 46340))

RECURSIVE Reduce(_)
Reduce(v) ==
    IF Max(Abs(v.x), Abs(v.y)) > 30000
    THEN Reduce([x |-> TruncDiv(v.x, 10), y |-> TruncDiv(v.y, 10)])
    ELSE v

\* Vector2.length() > 0
NonZero(v) == v.x # 0 \/ v.y # 0

\* Vector2.normalize_ip(): the unit vector of v, in thousandths
Normalize(v) ==
    LET r == Reduce(v)
        len == ISqrt(r.x * r.x + r.y * r.y)
    IN [x |-> TruncDiv(r.x * Scale, len), y |-> TruncDiv(r.y * Scale, len)]

\* unit (thousandths) * speed (px/s) * dt (ms) / 1000, in thousandths of a pixel
Step(unit, speed, ms) == TruncDiv(TruncDiv(unit * speed, 10) * ms, 100)

\* the same with speed in 1/SpeedUnit px/s
SharkStep(unit, speed, ms) == TruncDiv(TruncDiv(unit * speed, 10 * SpeedUnit) * ms, 100)

\* ------------------------------------------------------------- GameObject
\* GameObject.get_rect(shrink): int() of each float
get_rect(o, shrink) ==
    [x |-> TruncDiv(o.x + shrink * Scale, Scale),
     y |-> TruncDiv(o.y + shrink * Scale, Scale),
     w |-> o.w - 2 * shrink,
     h |-> o.h - 2 * shrink]

\* pygame.Rect.colliderect (pygame 2): a rect of zero width or height collides
\* with nothing, a negative width or height is read as the rect it spans
colliderect(a, b) ==
    /\ a.w # 0 /\ a.h # 0 /\ b.w # 0 /\ b.h # 0
    /\ Min(a.x, a.x + a.w) < Max(b.x, b.x + b.w)
    /\ Min(a.y, a.y + a.h) < Max(b.y, b.y + b.h)
    /\ Max(a.x, a.x + a.w) > Min(b.x, b.x + b.w)
    /\ Max(a.y, a.y + a.h) > Min(b.y, b.y + b.h)

buffer == 18

collides_with(a, b) == colliderect(get_rect(a, buffer), get_rect(b, buffer))

\* pygame.Rect.center
center(r) == [x |-> r.x + r.w \div 2, y |-> r.y + r.h \div 2]

\* ------------------------------------------------------------------ Fish
FishSpeed == 345
InvincibleTime == 3000

Fish(x, y) ==
    [x |-> x * Scale, y |-> y * Scale, w |-> 100, h |-> 70,
     invincible |-> FALSE, invincible_timer |-> 0,
     direction |-> 1, vx |-> 0, vy |-> 0]

\* Fish.update lines 75-85: the raw velocity from the held keys
KeyX(keys) == IF "RIGHT" \in keys THEN 1 ELSE IF "LEFT" \in keys THEN -1 ELSE 0
KeyY(keys) == IF "DOWN" \in keys THEN 1 ELSE IF "UP" \in keys THEN -1 ELSE 0

Fish_direction(p, keys) ==
    IF "RIGHT" \in keys THEN 1 ELSE IF "LEFT" \in keys THEN -1 ELSE p.direction

\* (variant: the right edge is not enforced)
ClampX_open(p, x) == Max(0, x)
\* Fish.update lines 89-90
ClampX(p, x) == Max(0, Min((SCREEN_WIDTH - p.w) * Scale, x))
ClampY(p, y) == Max(0, Min((SCREEN_HEIGHT - p.h) * Scale, y))

\* (variant: the timer runs but invincible is never cleared)
Fish_timer_stuck(p, ms) ==
    IF p.invincible THEN [p EXCEPT !.invincible_timer = @ - ms] ELSE p
\* Fish.update lines 91-94
Fish_timer(p, ms) ==
    IF p.invincible
    THEN [p EXCEPT !.invincible_timer = @ - ms,
                   !.invincible = (p.invincible_timer - ms > 0)]
    ELSE p

Fish_update(p, ms, keys) ==
    LET raw == [x |-> KeyX(keys) * Scale, y |-> KeyY(keys) * Scale]
        v == IF NonZero(raw) THEN Normalize(raw) ELSE raw
        moved == [p EXCEPT !.vx = v.x, !.vy = v.y,
                           !.direction = Fish_direction(p, keys),
                           !.x = ClampX(p, p.x + Step(v.x, FishSpeed, ms)),
                           !.y = ClampY(p, p.y + Step(v.y, FishSpeed, ms))]
    IN Fish_timer(moved, ms)

\* ----------------------------------------------------------------- Shark
Shark(x, y, speed) ==
    [x |-> x * Scale, y |-> y * Scale, w |-> 140, h |-> 90, speed |-> speed]

\* Shark.update: off is the random offset (thousandths), target in pixels
Shark_update(s, ms, target, off) ==
    LET d == [x |-> target.x * Scale - s.x, y |-> target.y * Scale - s.y]
    IN IF ~NonZero(d) THEN s
       ELSE LET n == Normalize(d)
                j == [x |-> n.x + off[1], y |-> n.y + off[2]]
                u == IF NonZero(j) THEN Normalize(j) ELSE j
            IN [s EXCEPT !.x = @ + SharkStep(u.x, s.speed, ms),
                         !.y = @ + SharkStep(u.y, s.speed, ms)]

\* --------------------------------------------------------------- Powerup
PowerupTypes == {"invincible", "slow", "score", "mystery"}
MysteryEffects == {"invincible", "slow", "score"}

Powerup(x, y, type) ==
    [x |-> x * Scale, y |-> y * Scale, w |-> 30, h |-> 30,
     type |-> type, active |-> TRUE]

\* ---------------------------------------------------------------- Button
Button(y, action) == [x |-> 300, y |-> y, w |-> 200, h |-> 50,
                      action |-> action, is_hovered |-> FALSE]

\* Button.contains: pygame.Rect.collidepoint
contains(b, pos) ==
    /\ b.x <= pos[1] /\ pos[1] < b.x + b.w
    /\ b.y <= pos[2] /\ pos[2] < b.y + b.h

InitButtons ==
    <<Button(150, "easy"), Button(220, "medium"), Button(290, "hard"),
      Button(360, "set_name"), Button(430, "start")>>

\* --------------------------------------------------------------- strings
\* a str is the sequence of its characters
RECURSIVE lstrip(_)
lstrip(s) == IF s # <<>> /\ Head(s) = " " THEN lstrip(Tail(s)) ELSE s
RECURSIVE rstrip(_)
rstrip(s) ==
    IF s # <<>> /\ s[Len(s)] = " " THEN rstrip(SubSeq(s, 1, Len(s) - 1)) ELSE s
\* str.strip()
strip(s) == rstrip(lstrip(s))
\* str.isprintable()
\* a character is a one-letter string, or the name of a control character
ControlChars == {"CR", "BS", "TAB"}
isprintable(s) == \A i \in 1..Len(s) : s[i] \notin ControlChars
\* s[:-1]
DropLast(s) == IF s = <<>> THEN s ELSE SubSeq(s, 1, Len(s) - 1)

\* ------------------------------------------------------------ high scores
\* list.sort(key=score, reverse=True) is stable: an entry goes after every
\* entry whose score is greater than or equal to its own
\* (variant: a new entry goes before the entries of equal score)
RECURSIVE InsertDesc_first(_, _)
InsertDesc_first(sorted, e) ==
    IF sorted = <<>> THEN <<e>>
    ELSE IF Head(sorted).score > e.score
         THEN <<Head(sorted)>> \o InsertDesc_first(Tail(sorted), e)
         ELSE <<e>> \o sorted
RECURSIVE InsertDesc(_, _)
InsertDesc(sorted, e) ==
    IF sorted = <<>> THEN <<e>>
    ELSE IF Head(sorted).score >= e.score
         THEN <<Head(sorted)>> \o InsertDesc(Tail(sorted), e)
         ELSE <<e>> \o sorted
RECURSIVE SortDesc(_)
SortDesc(s) ==
    IF s = <<>> THEN <<>>
    ELSE InsertDesc(SortDesc(SubSeq(s, 1, Len(s) - 1)), s[Len(s)])

\* high_scores[:5]
TopN == 5
\* (variant: the list is not cut)
Truncate_none(s) == s
Truncate(s) == SubSeq(s, 1, Min(Len(s), TopN))

\* int(self.score)
IntScore(score) == TruncDiv(score, Scale)

\* SharkChaseGame.update_high_scores
update_high_scores(g) ==
    LET new_score == [name |-> g.username, score |-> IntScore(g.score)]
    IN [g EXCEPT !.high_scores = Truncate(SortDesc(Append(@, new_score)))]

\* what high_scores.json may hold at start (written by save_high_scores in an
\* earlier run of the program, or absent)
SavedScores ==
    <<[name |-> DefaultName, score |-> 200], [name |-> <<"r">>, score |-> 160],
      [name |-> DefaultName, score |-> 160], [name |-> <<"m">>, score |-> 120]>>
\* a file edited by hand: six entries, not in order
EditedScores ==
    <<[name |-> <<"m">>, score |-> 120], [name |-> DefaultName, score |-> 200],
      [name |-> <<"r">>, score |-> 160], [name |-> DefaultName, score |-> 160],
      [name |-> <<"r">>, score |-> 0], [name |-> <<"m">>, score |-> 300]>>
\* a full list saved by an earlier run
FullScores ==
    <<[name |-> <<"m">>, score |-> 300], [name |-> DefaultName, score |-> 200],
      [name |-> <<"r">>, score |-> 160], [name |-> DefaultName, score |-> 160],
      [name |-> <<"m">>, score |-> 120]>>
ScoreFiles == {<<>>, SavedScores}

\* SharkChaseGame.load_high_scores
load_high_scores(file) == file

\* --------------------------------------------------------- SharkChaseGame
SpawnRate == 2000
PowerupSpawnRate == 10000

\* SharkChaseGame.__init__
NewGame(file, t) ==
    [state |-> MENU, username |-> DefaultName, username_input |-> <<>>,
     difficulty |-> 1, spawn_rate |-> SpawnRate, last_spawn_time |-> t,
     game_time |-> 0, score |-> 0, powerup_spawn_rate |-> PowerupSpawnRate,
     last_powerup_spawn_time |-> t,
     player |-> Fish(SCREEN_WIDTH \div 2, SCREEN_HEIGHT \div 2),
     sharks |-> <<>>, powerups |-> <<>>,
     high_scores |-> load_high_scores(file), buttons |-> InitButtons]

set_difficulty(g, level) == [g EXCEPT !.difficulty = level]

enter_name_mode(g) == [g EXCEPT !.username_input = <<>>, !.state = NAME_INPUT]

\* (variant: a new run starts on the easy level)
start_game_easy(g, t) ==
    [g EXCEPT !.state = PLAYING, !.score = 0, !.game_time = 0,
              !.player.x = (SCREEN_WIDTH \div 2) * Scale,
              !.player.y = (SCREEN_HEIGHT \div 2) * Scale,
              !.sharks = <<>>, !.powerups = <<>>,
              !.last_spawn_time = t, !.last_powerup_spawn_time = t,
              !.difficulty = 1]
start_game(g, t) ==
    [g EXCEPT !.state = PLAYING, !.score = 0, !.game_time = 0,
              !.player.x = (SCREEN_WIDTH \div 2) * Scale,
              !.player.y = (SCREEN_HEIGHT \div 2) * Scale,
              !.sharks = <<>>, !.powerups = <<>>,
              !.last_spawn_time = t, !.last_powerup_spawn_time = t]

\* (variant: restart resumes without the reset)
restart_resume(g, t) == [g EXCEPT !.state = PLAYING]
restart_game(g, t) == start_game(g, t)

\* (variant: the speed grows by 40 per level above the first)
spawn_shark_from_zero(g, side, c) ==
    LET x == CASE side = 0 -> -100 [] side = 1 -> SCREEN_WIDTH + 100 [] OTHER -> c[1]
        y == CASE side = 0 -> c[2] [] side = 1 -> c[2] [] side = 2 -> -100
               [] OTHER -> SCREEN_HEIGHT + 100
        speed == (150 + (g.difficulty - 1) * 40) * SpeedUnit
    IN [g EXCEPT !.sharks = Append(@, Shark(x, y, speed))]
\* spawn_shark: side is random.randint(0, 3), c the random coordinate
spawn_shark(g, side, c) ==
    LET x == CASE side = 0 -> -100 [] side = 1 -> SCREEN_WIDTH + 100 [] OTHER -> c[1]
        y == CASE side = 0 -> c[2] [] side = 1 -> c[2] [] side = 2 -> -100
               [] OTHER -> SCREEN_HEIGHT + 100
        speed == (150 + g.difficulty * 40) * SpeedUnit
    IN [g EXCEPT !.sharks = Append(@, Shark(x, y, speed))]

spawn_powerup(g, spot, type) ==
    [g EXCEPT !.powerups = Append(@, Powerup(spot[1], spot[2], type))]

\* the button callbacks (lines 226-230)
ButtonAction(g, action, t) ==
    CASE action = "easy" -> set_difficulty(g, 1)
      [] action = "medium" -> set_difficulty(g, 2)
      [] action = "hard" -> set_difficulty(g, 3)
      [] action = "set_name" -> enter_name_mode(g)
      [] OTHER -> start_game(g, t)

\* ---------------------------------------------------------------- update
\* lines 295-299: every shark moves toward the player's centre and is tested;
\* each shark that collides with a player who is not invincible calls
\* update_high_scores and sets the state
\* (variant: the invincible flag is not consulted)
RECURSIVE shark_loop_unshielded(_, _, _, _, _)
shark_loop_unshielded(g, i, ms, target, offs) ==
    IF i > Len(g.sharks) THEN g
    ELSE LET s == Shark_update(g.sharks[i], ms, target, offs[i])
             g1 == [g EXCEPT !.sharks[i] = s]
             g2 == IF collides_with(s, g1.player)
                   THEN [update_high_scores(g1) EXCEPT !.state = GAMEOVER]
                   ELSE g1
         IN shark_loop_unshielded(g2, i + 1, ms, target, offs)
RECURSIVE shark_loop(_, _, _, _, _)
shark_loop(g, i, ms, target, offs) ==
    IF i > Len(g.sharks) THEN g
    ELSE LET s == Shark_update(g.sharks[i], ms, target, offs[i])
             g1 == [g EXCEPT !.sharks[i] = s]
             g2 == IF collides_with(s, g1.player) /\ ~g1.player.invincible
                   THEN [update_high_scores(g1) EXCEPT !.state = GAMEOVER]
                   ELSE g1
         IN shark_loop(g2, i + 1, ms, target, offs)

\* lines 302-319: the effect of a picked power-up
\* (variant: a slowed shark is not slowed again)
slow_sharks_once(g) ==
    [g EXCEPT !.sharks = [i \in 1..Len(@) |->
        [@[i] EXCEPT !.speed = Min(@, ((150 + g.difficulty * 40) * SpeedUnit) \div 2)]]]
slow_sharks(g) ==
    [g EXCEPT !.sharks = [i \in 1..Len(@) |-> [@[i] EXCEPT !.speed = @ \div 2]]]

\* (variant: the score bonus is 100)
apply_effect_bonus100(g, effect) ==
    CASE effect = "invincible" ->
           [g EXCEPT !.player.invincible = TRUE,
                     !.player.invincible_timer = InvincibleTime]
      [] effect = "slow" -> slow_sharks(g)
      [] OTHER -> [g EXCEPT !.score = @ + 100 * Scale]
apply_effect(g, effect) ==
    CASE effect = "invincible" ->
           [g EXCEPT !.player.invincible = TRUE,
                     !.player.invincible_timer = InvincibleTime]
      [] effect = "slow" -> slow_sharks(g)
      [] OTHER -> [g EXCEPT !.score = @ + 200 * Scale]

\* lines 300-320
RECURSIVE powerup_loop(_, _, _)
powerup_loop(g, i, effs) ==
    IF i > Len(g.powerups) THEN g
    ELSE LET p == g.powerups[i]
             effect == IF p.type = "mystery" THEN effs[i] ELSE p.type
             g1 == IF collides_with(p, g.player)
                   THEN [apply_effect(g, effect) EXCEPT !.powerups[i].active = FALSE]
                   ELSE g
         IN powerup_loop(g1, i + 1, effs)

\* (variant: picked power-ups stay in the list)
remove_inactive_never(g) == g
\* line 321
remove_inactive(g) ==
    [g EXCEPT !.powerups = SelectSeq(@, LAMBDA p : p.active)]

\* lines 322-327
\* (variant: the interval itself is enough)
ShouldSpawnShark_at(g, t) == t - g.last_spawn_time >= g.spawn_rate
ShouldSpawnShark(g, t) == t - g.last_spawn_time > g.spawn_rate
ShouldSpawnPowerup(g, t) == t - g.last_powerup_spawn_time > g.powerup_spawn_rate

spawn_step(g, t, sp, pw) ==
    LET g1 == IF ShouldSpawnShark(g, t)
              THEN [spawn_shark(g, sp.side, sp.c) EXCEPT !.last_spawn_time = t]
              ELSE g
    IN IF ShouldSpawnPowerup(g1, t)
       THEN [spawn_powerup(g1, pw.spot, pw.type) EXCEPT !.last_powerup_spawn_time = t]
       ELSE g1

\* lines 290-327: the body of update (the bubbles are display only)
update_playing(g, ms, t, keys, offs, effs, sp, pw) ==
    LET g1 == [g EXCEPT !.game_time = @ + ms, !.score = @ + ms * 20,
                        !.player = Fish_update(@, ms, keys)]
        target == center(get_rect(g1.player, 0))
        g2 == shark_loop(g1, 1, ms, target, offs)
        g3 == powerup_loop(g2, 1, effs)
        g4 == remove_inactive(g3)
    IN spawn_step(g4, t, sp, pw)

\* (variant: the state is not consulted)
update_always(g, ms, t, keys, offs, effs, sp, pw) ==
    update_playing(g, ms, t, keys, offs, effs, sp, pw)
\* SharkChaseGame.update: line 289, nothing happens unless PLAYING
update(g, ms, t, keys, offs, effs, sp, pw) ==
    IF g.state = PLAYING THEN update_playing(g, ms, t, keys, offs, effs, sp, pw) ELSE g

\* SharkChaseGame.draw: draw_menu moves the buttons (line 434)
draw(g) ==
    IF g.state = MENU
    THEN [g EXCEPT !.buttons = [i \in 1..Len(@) |-> [@[i] EXCEPT !.y = 280 + (i - 1) * 70]]]
    ELSE g

\* ---------------------------------------------------------- handle_events
KeyDown(key, unicode) == [type |-> "KEYDOWN", key |-> key, unicode |-> unicode]
Events ==
    {KeyDown("K_RETURN", <<"CR">>), KeyDown("K_BACKSPACE", <<"BS">>),
     KeyDown("K_TAB", <<"TAB">>), KeyDown("K_r", <<"r">>),
     KeyDown("K_m", <<"m">>), KeyDown("K_SPACE", <<" ">>)}
    \cup {[type |-> "MOUSEMOTION", pos |-> p] : p \in MotionPoints}
    \cup {[type |-> "MOUSEBUTTONDOWN", button |-> 1, pos |-> p] : p \in ClickPoints}
    \cup {[type |-> "MOUSEBUTTONDOWN", button |-> 3, pos |-> <<400, 300>>]}
\* the keys of the game-over screen, and clicks on the start button where
\* __init__ puts it (that is the hard button once draw_menu has run) and
\* where draw_menu puts it
PlayEvents ==
    {KeyDown("K_r", <<"r">>), KeyDown("K_m", <<"m">>),
     [type |-> "MOUSEBUTTONDOWN", button |-> 1, pos |-> <<400, 440>>],
     [type |-> "MOUSEBUTTONDOWN", button |-> 1, pos |-> <<400, 570>>]}

\* (variant: the keys of the game-over screen work in every state)
on_gameover_anywhere(g, e, t) ==
    IF e.type = "KEYDOWN"
    THEN LET g1 == IF e.key = "K_r" THEN restart_game(g, t) ELSE g
         IN IF e.key = "K_m" THEN [g1 EXCEPT !.state = MENU] ELSE g1
    ELSE g
\* lines 335-340
on_gameover(g, e, t) ==
    IF g.state = GAMEOVER /\ e.type = "KEYDOWN"
    THEN LET g1 == IF e.key = "K_r" THEN restart_game(g, t) ELSE g
         IN IF e.key = "K_m" THEN [g1 EXCEPT !.state = MENU] ELSE g1
    ELSE g

\* lines 348-350
RECURSIVE click_loop(_, _, _, _)
click_loop(g, i, pos, t) ==
    IF i > Len(g.buttons) THEN g
    ELSE click_loop(IF contains(g.buttons[i], pos)
                    THEN ButtonAction(g, g.buttons[i].action, t) ELSE g,
                    i + 1, pos, t)

\* lines 341-350
on_menu(g, e, t) ==
    IF g.state = MENU
    THEN LET g1 == IF e.type = "MOUSEMOTION"
                   THEN [g EXCEPT !.buttons = [i \in 1..Len(@) |->
                            [@[i] EXCEPT !.is_hovered = contains(g.buttons[i], e.pos)]]]
                   ELSE g
         IN IF e.type = "MOUSEBUTTONDOWN" /\ e.button = 1
            THEN click_loop(g1, 1, e.pos, t) ELSE g1
    ELSE g

\* (variant: the input is committed as typed)
confirm_name_raw(g) ==
    [g EXCEPT !.username = IF g.username_input # <<>>
                           THEN g.username_input ELSE DefaultName,
              !.state = MENU]
\* line 354
confirm_name(g) ==
    [g EXCEPT !.username = IF strip(g.username_input) # <<>>
                           THEN strip(g.username_input) ELSE DefaultName,
              !.state = MENU]

\* lines 351-360
on_name_input(g, e) ==
    IF g.state = NAME_INPUT /\ e.type = "KEYDOWN"
    THEN CASE e.key = "K_RETURN" -> confirm_name(g)
           [] e.key = "K_BACKSPACE" -> [g EXCEPT !.username_input = DropLast(@)]
           [] OTHER -> IF isprintable(e.unicode)
                       THEN [g EXCEPT !.username_input = @ \o e.unicode]
                       ELSE g
    ELSE g

\* one event of the loop of handle_events: the three blocks in turn
on_event(g, e, t) == on_name_input(on_menu(on_gameover(g, e, t), e, t), e)

\* --------------------------------------------------------------- actions
HeldKeys == {"LEFT", "RIGHT", "UP", "DOWN"}

\* the inputs of a specification
World ==
    [dts |-> DtSet, maxNow |-> MaxNow, events |-> Events,
     keySets |-> {{}}, sides |-> 0..3, jitter |-> Jitter, files |-> ScoreFiles,
     spots |-> PowerupSpots]
PlayWorld ==
    [dts |-> PlayDtSet, maxNow |-> PlayMaxNow, events |-> PlayEvents,
     keySets |-> {{}}, sides |-> {2}, jitter |-> Jitter, files |-> {SavedScores},
     spots |-> PowerupSpots]
ChaseWorld ==
    [dts |-> ChaseDtSet, maxNow |-> ChaseMaxNow, events |-> PlayEvents,
     keySets |-> {{}}, sides |-> {2}, jitter |-> Jitter,
     files |-> {SavedScores, EditedScores, FullScores}, spots |-> PowerupSpots]
MoveWorld ==
    [dts |-> MoveDtSet, maxNow |-> MoveMaxNow, events |-> PlayEvents,
     keySets |-> SUBSET HeldKeys, sides |-> {2}, jitter |-> PlayJitter, files |-> {<<>>},
     spots |-> PowerupSpots]
PickWorld ==
    [dts |-> PickDtSet, maxNow |-> PickMaxNow, events |-> PlayEvents,
     keySets |-> {{}}, sides |-> {2}, jitter |-> PlayJitter, files |-> {SavedScores},
     spots |-> PickSpots]

\* the frame record of an update() call that found the game not PLAYING
NoFrame ==
    [played |-> FALSE, overlaps |-> 0, shielded |-> FALSE, hits |-> 0,
     effects |-> <<>>, spawned_sharks |-> 0, spawned_powerups |-> 0]

InitIn(w) ==
    /\ \E file \in w.files : game = NewGame(file, 0)
    /\ pc = "tick"
    /\ dt = 0
    /\ now = 0
    /\ frame = NoFrame

\* run(): dt = self.clock.tick(FPS) / 1000.0
Tick(w) ==
    /\ pc = "tick"
    /\ \E d \in w.dts :
         /\ now + d <= w.maxNow
         /\ dt' = d
         /\ now' = now + d
    /\ pc' = "events"
    /\ UNCHANGED <<game, frame>>

\* handle_events lines 332-334
Quit ==
    /\ pc = "events"
    /\ pc' = "exit"
    /\ UNCHANGED <<game, dt, now, frame>>

\* handle_events: one event other than QUIT
HandleEvent(w) ==
    /\ pc = "events"
    /\ \E e \in w.events :
         /\ (game.state = NAME_INPUT /\ e.type = "KEYDOWN" /\ isprintable(e.unicode))
              => /\ e.unicode[1] \in InputChars
                 /\ Len(game.username_input) < MaxNameLen
         /\ game' = on_event(game, e, now)
    /\ UNCHANGED <<pc, dt, now, frame>>

NoSpawn == [side |-> 0, c |-> <<0, 0>>]
SharkSpawns(w) ==
    {[side |-> s, c |-> <<x, y>>] : s \in w.sides, x \in SpawnXs, y \in SpawnYs}
NoPowerup == [spot |-> <<0, 0>>, type |-> "none"]
PowerupSpawns(w) == {[spot |-> s, type |-> ty] : s \in w.spots, ty \in PowerupTypes}

\* what update() did while PLAYING: the sharks that overlapped the player
\* (after both moved), whether the player was invincible when they were
\* tested, the lethal overlaps, the effect each live power-up applied
\* ("none" when it was not touched) and the objects spawned
FrameOf(g, r, ms, keys, effs) ==
    LET p == Fish_update(g.player, ms, keys)
        n == Cardinality({i \in 1..Len(g.sharks) : collides_with(r.sharks[i], p)})
    IN [played |-> TRUE,
        overlaps |-> n,
        shielded |-> p.invincible,
        hits |-> IF p.invincible THEN 0 ELSE n,
        effects |-> [i \in 1..Len(g.powerups) |->
                       IF collides_with(g.powerups[i], p)
                       THEN (IF g.powerups[i].type = "mystery" THEN effs[i]
                             ELSE g.powerups[i].type)
                       ELSE "none"],
        spawned_sharks |-> Len(r.sharks) - Len(g.sharks),
        spawned_powerups |-> IF ShouldSpawnPowerup(g, now) THEN 1 ELSE 0]

\* run(): self.update(dt); self.draw()
Update(w) ==
    /\ pc = "events"
    /\ pc' = "tick"
    /\ UNCHANGED <<dt, now>>
    /\ IF game.state = PLAYING
       THEN \E keys \in w.keySets,
               offs \in [1..Len(game.sharks) -> w.jitter],
               effs \in [1..Len(game.powerups) -> MysteryEffects],
               sp \in IF ShouldSpawnShark(game, now) THEN SharkSpawns(w) ELSE {NoSpawn},
               pw \in IF ShouldSpawnPowerup(game, now) THEN PowerupSpawns(w) ELSE {NoPowerup} :
                 /\ game' = draw(update(game, dt, now, keys, offs, effs, sp, pw))
                 /\ frame' = FrameOf(game, game', dt, keys, effs)
       ELSE \E keys \in w.keySets,
               sp \in SharkSpawns(w),
               pw \in PowerupSpawns(w) :
                 /\ game' = draw(update(game, dt, now, keys,
                                        [i \in 1..Len(game.sharks) |-> <<0, 0>>],
                                        [i \in 1..Len(game.powerups) |-> "score"],
                                        sp, pw))
                 /\ frame' = NoFrame

Init == InitIn(World)

Next == Tick(World) \/ Quit \/ HandleEvent(World) \/ Update(World)

Spec == Init /\ [][Next]_vars

PlayNext == Tick(PlayWorld) \/ Quit \/ HandleEvent(PlayWorld) \/ Update(PlayWorld)

PlayInit == InitIn(PlayWorld)

PlaySpec == PlayInit /\ [][PlayNext]_vars

ChaseNext == Tick(ChaseWorld) \/ Quit \/ HandleEvent(ChaseWorld) \/ Update(ChaseWorld)

ChaseInit == InitIn(ChaseWorld)

ChaseSpec == ChaseInit /\ [][ChaseNext]_vars

MoveNext == Tick(MoveWorld) \/ Quit \/ HandleEvent(MoveWorld) \/ Update(MoveWorld)

MoveInit == InitIn(MoveWorld)

MoveSpec == MoveInit /\ [][MoveNext]_vars

PickNext == Tick(PickWorld) \/ Quit \/ HandleEvent(PickWorld) \/ Update(PickWorld)

PickInit == InitIn(PickWorld)

PickSpec == PickInit /\ [][PickNext]_vars

\* Start-up from the score store as it may be found: high_scores.json is
\* absent or holds a saved list (json is TRUE, value the list), or it holds
\* text that is not JSON. json.load (line 235) raises on such text and
\* nothing catches it: __init__ does not return and the process ends with
\* the error before run() is entered.
StoreFiles ==
    {[json |-> TRUE, value |-> <<>>], [json |-> TRUE, value |-> SavedScores],
     [json |-> FALSE, value |-> <<>>]}
Raises(file) == ~file.json
NoGame == [state |-> "none"]

LoadInit ==
    /\ \E file \in StoreFiles :
         IF Raises(file)
         THEN game = NoGame /\ pc = "error"
         ELSE game = NewGame(file.value, 0) /\ pc = "tick"
    /\ dt = 0
    /\ now = 0
    /\ frame = NoFrame

LoadSpec == LoadInit /\ [][ChaseNext]_vars

\* run() under the fairness its loop gives: every frame calls update(), and
\* the clock keeps returning positive dt (the frames the property speaks of).
\* Called is the step Update(PlayWorld) takes and PosTick a step of
\* Tick(PlayWorld) with dt > 0, written on pc and now alone.
Called == pc = "events" /\ pc' = "tick"
PosTick ==
    /\ pc = "tick"
    /\ pc' = "events"
    /\ \E d \in PlayWorld.dts :
         d > 0 /\ now + d <= PlayWorld.maxNow /\ now' = now + d

LiveSpec == PlaySpec /\ WF_pc(Called) /\ SF_<<pc, now>>(PosTick)

\* ------------------------------------------------------------ properties
\* the steps of run()
TickStep == pc = "tick" /\ pc' = "events"
EventStep == pc = "events" /\ pc' = "events"
UpdateStep == pc = "events" /\ pc' = "tick"

IsSorted(list) ==
    \A i \in 1..Len(list) - 1 : list[i].score >= list[i + 1].score

\* C1: in a Playing frame in which one or more sharks overlap a player who is
\* not invincible, the frame ends in GAMEOVER and the ranked list is the old
\* list with exactly one entry (username, int(score)) submitted, however many
\* sharks overlapped
C1_SubmitOnce ==
    [][(UpdateStep /\ game.state = PLAYING /\ frame'.hits >= 1)
         => /\ game'.state = GAMEOVER
            /\ game'.high_scores =
                 Truncate(SortDesc(Append(game.high_scores,
                     [name |-> game.username,
                      score |-> IntScore(game.score + dt * 20)])))]_vars

\* C2: the state starts as MENU and changes only by the listed transitions,
\* each on its own action: MENU->PLAYING (click on start), MENU->NAME_INPUT
\* (click on set name), NAME_INPUT->MENU (RETURN), PLAYING->GAMEOVER (an
\* update with a lethal collision), GAMEOVER->PLAYING (r), GAMEOVER->MENU (m)
ClickOn(g, e, action) ==
    /\ e.type = "MOUSEBUTTONDOWN" /\ e.button = 1
    /\ \E i \in 1..Len(g.buttons) :
         contains(g.buttons[i], e.pos) /\ g.buttons[i].action = action
Pressed(e, key) == e.type = "KEYDOWN" /\ e.key = key
ListedTransition(g, e, to) ==
    \/ g.state = MENU /\ to = PLAYING /\ ClickOn(g, e, "start")
    \/ g.state = MENU /\ to = NAME_INPUT /\ ClickOn(g, e, "set_name")
    \/ g.state = NAME_INPUT /\ to = MENU /\ Pressed(e, "K_RETURN")
    \/ g.state = GAMEOVER /\ to = PLAYING /\ Pressed(e, "K_r")
    \/ g.state = GAMEOVER /\ to = MENU /\ Pressed(e, "K_m")
C2_Step ==
    /\ (TickStep \/ pc' = "exit") => game'.state = game.state
    /\ UpdateStep => \/ game'.state = game.state
                     \/ /\ game.state = PLAYING /\ game'.state = GAMEOVER
                        /\ frame'.hits >= 1
    /\ EventStep => \A e \in Events :
                       game' = on_event(game, e, now)
                         => \/ game'.state = game.state
                            \/ ListedTransition(game, e, game'.state)
C2_OnlyListedTransitions == game.state = MENU /\ [][C2_Step]_vars
\* back in the name entry after a run that ended, under a chosen name
C2_Witness ==
    game.state = NAME_INPUT /\ game.game_time > 0 /\ game.username # DefaultName

\* C3: right after every transition into PLAYING (start from MENU, restart
\* from GAMEOVER) the score and the elapsed time are 0, the player is at the
\* centre of the field, no shark and no power-up is live, both spawn timers
\* equal the current time; restart does exactly what start does
C3_FreshRun ==
    [][(game.state # PLAYING /\ game'.state = PLAYING)
         => /\ game'.score = 0 /\ game'.game_time = 0
            /\ game'.player.x = (SCREEN_WIDTH * Scale) \div 2
            /\ game'.player.y = (SCREEN_HEIGHT * Scale) \div 2
            /\ game'.sharks = <<>> /\ game'.powerups = <<>>
            /\ game'.last_spawn_time = now
            /\ game'.last_powerup_spawn_time = now
            /\ game' = start_game(game, now)]_vars
\* a run restarted after a run that ended with a submission
C3_Witness ==
    /\ game.state = PLAYING /\ pc = "events" /\ game.game_time = 0
    /\ game.high_scores # SavedScores /\ game.sharks = <<>> /\ now > 0

\* C4: in a Playing frame in which the player is invincible when the sharks
\* are tested (after its own timer update), the state stays PLAYING and no
\* score is submitted, however many sharks overlap it
C4_InvincibleSurvives ==
    [][(UpdateStep /\ game.state = PLAYING /\ frame'.shielded)
         => game'.state = PLAYING /\ game'.high_scores = game.high_scores]_vars
\* an invincible player overlapped by a shark, still playing
C4_Witness ==
    frame.played /\ frame.shielded /\ frame.overlaps >= 1 /\ game.state = PLAYING

\* C5: in a frame with a lethal collision nothing is mutated after the
\* submission and the change to GAMEOVER: the power-ups stay as they were,
\* no effect is applied (score, invincible, shark speeds) and nothing spawns
C5_NothingAfterGameOver ==
    [][(UpdateStep /\ game.state = PLAYING /\ frame'.hits >= 1)
         => /\ game'.powerups = game.powerups
            /\ game'.score = game.score + dt * 20
            /\ ~game'.player.invincible
            /\ Len(game'.sharks) = Len(game.sharks)
            /\ \A i \in 1..Len(game.sharks) :
                 game'.sharks[i].speed = game.sharks[i].speed]_vars

\* C6: a frame (the tick and the update) taken while the state is MENU,
\* GAMEOVER or NAME_INPUT leaves score, elapsed time, player, sharks,
\* power-ups, both spawn timers and the ranked list unchanged
Simulation(g) ==
    <<g.score, g.game_time, g.player, g.sharks, g.powerups,
      g.last_spawn_time, g.last_powerup_spawn_time, g.high_scores>>
C6_FrozenOutsidePlaying ==
    [][((TickStep \/ UpdateStep) /\ game.state # PLAYING)
         => Simulation(game') = Simulation(game)]_vars
\* a frame of positive dt went by on the game-over screen, sharks still live
C6_Witness ==
    /\ game.state = GAMEOVER /\ pc = "tick" /\ ~frame.played /\ dt > 0
    /\ game.sharks # <<>> /\ game.score > 0

\* C7: in every reachable state the player's position is within
\* [0, 800 - 100] x [0, 600 - 70]
C7_PlayerInField ==
    /\ 0 <= game.player.x /\ game.player.x <= 700 * Scale
    /\ 0 <= game.player.y /\ game.player.y <= 530 * Scale
\* the player pushed into the top right corner
C7_Witness ==
    game.state = PLAYING /\ game.player.x = 700 * Scale /\ game.player.y = 0

\* C8: after a submission, whatever the list held before, the ranked list
\* has at most 5 entries and is sorted by score, descending
C8_RankedList ==
    frame.hits >= 1 => Len(game.high_scores) <= 5 /\ IsSorted(game.high_scores)
\* a submission to the list loaded from the six-entry unordered file
C8_Witness ==
    /\ frame.hits >= 1 /\ Len(game.high_scores) = 5
    /\ game.high_scores[1].score = 300
    /\ \E i \in 1..5 : game.high_scores[i].name = game.username
                       /\ game.high_scores[i].score = IntScore(game.score)

\* C9 (as stated): on RETURN in NAME_INPUT the state becomes MENU and the
\* username becomes the trimmed buffer when that is not empty; when the
\* buffer is empty or only spaces, the username keeps its previous value
ConfirmStep == EventStep /\ game.state = NAME_INPUT /\ game'.state # NAME_INPUT
C9_KeepsPreviousName ==
    [][ConfirmStep
         => /\ game'.state = MENU
            /\ game'.username = IF strip(game.username_input) # <<>>
                                THEN strip(game.username_input)
                                ELSE game.username]_vars
\* C9 (amended): on RETURN in NAME_INPUT the state becomes MENU and the
\* username becomes the trimmed buffer when that is not empty; when the
\* buffer is empty or only spaces, the username becomes "Player"
C9_DefaultNameOnBlank ==
    [][ConfirmStep
         => /\ game'.state = MENU
            /\ game'.username = IF strip(game.username_input) # <<>>
                                THEN strip(game.username_input)
                                ELSE DefaultName]_vars
\* a buffer of spaces was confirmed
C9_Witness ==
    /\ game.state = MENU /\ game.username_input # <<>>
    /\ strip(game.username_input) = <<>> /\ game.username = DefaultName

\* C10: while PLAYING, an invincible player's timer goes down by dt each
\* frame and invincible is cleared in the first frame where the timer is
\* <= 0 (unless an Invincibility effect is applied in that frame); so, with
\* frames of positive dt, invincibility ends (or the program exits, or the
\* explored time is used up)
Applied(f, effect) == \E i \in 1..Len(f.effects) : f.effects[i] = effect
Horizon == \A d \in PlayDtSet : d > 0 => now + d > PlayMaxNow
Shielded == game.state = PLAYING /\ game.player.invincible
C10_TimerStep ==
    (UpdateStep /\ Shielded /\ ~Applied(frame', "invincible"))
      => /\ game'.player.invincible_timer = game.player.invincible_timer - dt
         /\ game'.player.invincible = (game.player.invincible_timer - dt > 0)
C10_InvincibilityEnds ==
    /\ [][C10_TimerStep]_vars
    /\ Shielded ~> (~Shielded \/ pc = "exit" \/ Horizon)
\* the timer ran out during play
C10_Witness ==
    /\ game.state = PLAYING /\ frame.played
    /\ ~game.player.invincible /\ game.player.invincible_timer < 0

\* C11: the score at the end of a Playing frame is the score at its start
\* plus dt x 20 plus exactly 200 for each score effect applied in the frame,
\* and nothing but a transition into PLAYING ever lowers the score
Count(f, effect) ==
    Cardinality({i \in 1..Len(f.effects) : f.effects[i] = effect})
C11_ScoreStep ==
    /\ (UpdateStep /\ game.state = PLAYING)
         => game'.score = game.score + dt * 20
                          + 200 * Scale * Count(frame', "score")
    /\ game'.score < game.score
         => game.state # PLAYING /\ game'.state = PLAYING
C11_ScoreOnlyGrows == [][C11_ScoreStep]_vars
\* a score bonus was collected in a frame of play
C11_Witness ==
    /\ game.state = PLAYING /\ frame.played /\ Applied(frame, "score")
    /\ game.score >= 200 * Scale

\* C12: in the player update, when both opposite keys of an axis are held
\* (LEFT and RIGHT, or UP and DOWN) that axis of the velocity is 0 and the
\* player does not move along it in the frame, for every combination of the
\* four held keys
C12_OppositeKeysCancel ==
    (game.state = PLAYING /\ pc = "events")
      => \A keys \in SUBSET HeldKeys :
           LET p == Fish_update(game.player, dt, keys)
           IN /\ {"LEFT", "RIGHT"} \subseteq keys
                   => p.vx = 0 /\ p.x = game.player.x
              /\ {"UP", "DOWN"} \subseteq keys
                   => p.vy = 0 /\ p.y = game.player.y

\* C13: the overlap test is false whenever the shrink (18) is at least half
\* of the width or height of either box, so it is false for every box with a
\* dimension of 36 or less, the 30x30 power-up included, wherever the two
\* objects are
Degenerate(o) == 2 * buffer >= o.w \/ 2 * buffer >= o.h
Objects(g) ==
    {g.player} \cup {g.sharks[i] : i \in 1..Len(g.sharks)}
               \cup {g.powerups[i] : i \in 1..Len(g.powerups)}
C13_DegenerateNeverOverlaps ==
    \A a \in Objects(game), b \in Objects(game) :
        (a # b /\ (Degenerate(a) \/ Degenerate(b))) => ~collides_with(a, b)

\* C14: when the score file holds data that does not parse as a list of
\* entries, start-up gives an empty ranked list and the program goes on to
\* the menu: the process never ends in an error
C14_MalformedStoreRecovered == pc # "error" /\ game # NoGame

\* C15: a set-difficulty request with a level outside {1,2,3} sets the
\* difficulty to the nearest valid value (below 1 gives 1, above 3 gives 3),
\* so the difficulty is in {1,2,3} after every set_difficulty call
C15_DifficultyClamped ==
    \A level \in Levels :
        LET g == set_difficulty(game, level)
        IN /\ g.difficulty \in {1, 2, 3}
           /\ g.difficulty = (IF level < 1 THEN 1 ELSE IF level > 3 THEN 3 ELSE level)

\* C16: a shark is spawned with speed 150 + difficulty x 40 (230 at
\* difficulty 2), and the difficulty has no effect on when sharks or
\* power-ups are spawned: whether a frame spawns is decided by the time
\* since the last spawn alone, the same for difficulty 1, 2 and 3
SharkDue == now - game.last_spawn_time > 2000
PowerupDue == now - game.last_powerup_spawn_time > 10000
C16_Step ==
    (UpdateStep /\ game.state = PLAYING)
      => /\ Len(game'.sharks) = Len(game.sharks) + (IF SharkDue THEN 1 ELSE 0)
         /\ SharkDue => game'.sharks[Len(game'.sharks)].speed
                          = (150 + game.difficulty * 40) * SpeedUnit
         /\ game'.last_powerup_spawn_time # game.last_powerup_spawn_time
              <=> PowerupDue
         /\ \A d \in {1, 2, 3} :
              LET g == [game EXCEPT !.difficulty = d]
                  s == spawn_shark(g, 2, <<400, 300>>).sharks
              IN /\ s[Len(s)].speed = (150 + d * 40) * SpeedUnit
                 /\ d = 2 => s[Len(s)].speed = 230 * SpeedUnit
                 /\ ShouldSpawnShark(g, now) = SharkDue
                 /\ ShouldSpawnPowerup(g, now) = PowerupDue
C16_SpawnSpeedAndCadence == [][C16_Step]_vars
\* a frame at difficulty 3 that spawned a shark and a power-up
C16_Witness ==
    /\ game.state = PLAYING /\ game.difficulty = 3 /\ frame.spawned_sharks = 1
    /\ game.sharks[Len(game.sharks)].speed = 270 * SpeedUnit
    /\ frame.spawned_powerups = 1 /\ game.powerups # <<>>

\* C17: in a frame that starts PLAYING a shark is spawned exactly when the
\* time since the last shark spawn (or the start of the run) is strictly
\* more than 2000 ms, a power-up exactly when the time since the last
\* power-up spawn is strictly more than 10000 ms; at most one of each per
\* frame however long the gap; a spawn resets its own timer to now and
\* nothing else but the start of a run touches the timers
Picked(f) == Cardinality({i \in 1..Len(f.effects) : f.effects[i] # "none"})
C17_Step ==
    /\ (UpdateStep /\ game.state = PLAYING)
         => /\ Len(game'.sharks) - Len(game.sharks) = (IF SharkDue THEN 1 ELSE 0)
            /\ Len(game'.powerups) - (Len(game.powerups) - Picked(frame'))
                 = (IF PowerupDue THEN 1 ELSE 0)
            /\ game'.last_spawn_time
                 = (IF SharkDue THEN now ELSE game.last_spawn_time)
            /\ game'.last_powerup_spawn_time
                 = (IF PowerupDue THEN now ELSE game.last_powerup_spawn_time)
    /\ (~(UpdateStep /\ game.state = PLAYING) /\ pc' # "exit"
        /\ ~(game.state # PLAYING /\ game'.state = PLAYING))
         => /\ game'.last_spawn_time = game.last_spawn_time
            /\ game'.last_powerup_spawn_time = game.last_powerup_spawn_time
            /\ Len(game'.sharks) = Len(game.sharks)
            /\ Len(game'.powerups) = Len(game.powerups)
C17_SpawnTiming == [][C17_Step]_vars
\* a frame more than 10 s after the start: one shark and one power-up, no more
C17_Witness ==
    /\ pc = "tick" /\ dt = 10001 /\ frame.played
    /\ frame.spawned_sharks = 1 /\ frame.spawned_powerups = 1
    /\ Len(game.sharks) = 1 /\ Len(game.powerups) = 1
    /\ game.last_spawn_time = now /\ game.last_powerup_spawn_time = now

\* C18: at the end of every frame that starts PLAYING the live power-ups are
\* all active: each power-up that overlapped the player had its effect
\* applied exactly once, was marked inactive and was removed; each one that
\* did not overlap is still there, unchanged and active
RECURSIVE Untouched(_, _, _)
Untouched(ps, f, i) ==
    IF i > Len(ps) THEN <<>>
    ELSE (IF f.effects[i] = "none" THEN <<ps[i]>> ELSE <<>>) \o Untouched(ps, f, i + 1)
C18_Step ==
    (UpdateStep /\ game.state = PLAYING)
      => LET kept == Untouched(game.powerups, frame', 1)
             slows == Count(frame', "slow")
         IN /\ \A i \in 1..Len(game'.powerups) : game'.powerups[i].active
            /\ \A i \in 1..Len(kept) : kept[i].active
            /\ Len(game'.powerups) = Len(kept) + (IF PowerupDue THEN 1 ELSE 0)
            /\ SubSeq(game'.powerups, 1, Len(kept)) = kept
            /\ game'.score = game.score + dt * 20
                             + 200 * Scale * Count(frame', "score")
            /\ Applied(frame', "invincible")
                 => /\ game'.player.invincible
                    /\ game'.player.invincible_timer = 3000
            /\ \A i \in 1..Len(game.sharks) :
                 game'.sharks[i].speed * (2 ^ slows) = game.sharks[i].speed
C18_PickedPowerupsRemoved == [][C18_Step]_vars
\* a frame that picked one power-up and left another, out of reach, live
C18_Witness ==
    /\ game.state = PLAYING /\ frame.played /\ Picked(frame) = 1
    /\ frame.spawned_powerups = 0 /\ Len(game.powerups) = 1
    /\ game.powerups[1].x = 100 * Scale

\* C19: a slow effect halves the speed of every shark live at that moment
\* and of no other; the reduction is never undone and stacks, and a shark
\* spawned afterwards (later in the same frame included) starts at full
\* speed. So while PLAYING every live shark's speed is
\* (150 + 40 x difficulty) x 0.5^k for some number k of slow effects
MaxSlows == 4
FullSpeed == (150 + 40 * game.difficulty) * SpeedUnit
C19_Step ==
    /\ (UpdateStep /\ game.state = PLAYING)
         => /\ \A i \in 1..Len(game.sharks) :
                 game'.sharks[i].speed * (2 ^ Count(frame', "slow"))
                   = game.sharks[i].speed
            /\ \A i \in Len(game.sharks) + 1..Len(game'.sharks) :
                 game'.sharks[i].speed = FullSpeed
    /\ (~(UpdateStep /\ game.state = PLAYING) /\ game'.sharks # <<>>)
         => /\ Len(game'.sharks) = Len(game.sharks)
            /\ \A i \in 1..Len(game.sharks) :
                 game'.sharks[i].speed = game.sharks[i].speed
C19_SlowFieldStacks ==
    /\ [](game.state = PLAYING
            => \A i \in 1..Len(game.sharks) :
                 \E k \in 0..MaxSlows : game.sharks[i].speed * (2 ^ k) = FullSpeed)
    /\ [][C19_Step]_vars
\* three sharks: slowed twice, slowed once, and spawned after both effects
C19_Witness ==
    /\ game.state = PLAYING /\ Len(game.sharks) >= 3
    /\ game.sharks[1].speed * 4 = FullSpeed
    /\ game.sharks[2].speed * 2 = FullSpeed
    /\ game.sharks[3].speed = FullSpeed

\* C20: ties in the ranked list are broken by insertion order: a submitted
\* entry is ranked after every existing entry of greater or equal score, so
\* a list of 5 entries all at least the new score is left unchanged, and
\* the entries already in the list keep their relative order
Submitted == [name |-> game'.username, score |-> IntScore(game'.score)]
Ahead == Cardinality({i \in 1..Len(game.high_scores) :
                        game.high_scores[i].score >= Submitted.score})
C20_Step ==
    (UpdateStep /\ frame'.hits >= 1 /\ IsSorted(game.high_scores))
      => LET old == game.high_scores
             new == game'.high_scores
             ranked == SubSeq(old, 1, Ahead)
                         \o [i \in 1..frame'.hits |-> Submitted]
                         \o SubSeq(old, Ahead + 1, Len(old))
         IN /\ new = SubSeq(ranked, 1, Min(Len(ranked), 5))
            /\ Ahead >= 5 => new = old
            /\ \A i \in 1..Min(Ahead, 5) : new[i] = old[i]
            /\ Ahead < 5 => new[Ahead + 1] = Submitted
            /\ \A i \in Ahead + 1..Len(old) :
                 i + frame'.hits <= 5 => new[i + frame'.hits] = old[i]
C20_TiesByInsertionOrder == [][C20_Step]_vars
\* a run ending on 120 points against the full list whose last entry is 120
C20_Witness ==
    /\ frame.hits >= 1 /\ IntScore(game.score) = 120
    /\ game.high_scores = FullScores
\* a run ending on 160 points is ranked after both earlier 160s
C20_TieWitness ==
    /\ frame.hits = 1 /\ IntScore(game.score) = 160
    /\ Len(game.high_scores) = 5
    /\ game.high_scores[2] = SavedScores[2] /\ game.high_scores[3] = SavedScores[3]
    /\ game.high_scores[4] = [name |-> game.username, score |-> 160]
    /\ game.high_scores[5] = SavedScores[4]

\* C21: difficulty is changed only by a click on a difficulty button in
\* MENU and username only by RETURN in NAME_INPUT; every other event
\* (start, restart and to-menu included), every tick and every update (a
\* lethal collision included) leaves both unchanged, so neither changes
\* while the state is PLAYING or GAMEOVER
SetsDifficulty(g, e) ==
    g.state = MENU /\ \E a \in {"easy", "medium", "hard"} : ClickOn(g, e, a)
C21_Step ==
    /\ ~EventStep => /\ game'.difficulty = game.difficulty
                     /\ game'.username = game.username
    /\ EventStep => \A e \in Events :
                       game' = on_event(game, e, now)
                         => /\ game'.difficulty # game.difficulty
                                 => SetsDifficulty(game, e)
                            /\ game'.username # game.username
                                 => /\ game.state = NAME_INPUT
                                    /\ Pressed(e, "K_RETURN")
    /\ game.state \in {PLAYING, GAMEOVER}
         => /\ game'.difficulty = game.difficulty
            /\ game'.username = game.username
C21_SettingsPersist == [][C21_Step]_vars
\* back in the menu after a run that ended, on the level and under the name
\* chosen before it
C21_Witness ==
    /\ game.state = MENU /\ game.game_time > 0
    /\ game.difficulty # 1 /\ game.username # DefaultName
    /\ \E i \in 1..Len(game.high_scores) : game.high_scores[i].name = game.username

\* C22: invincibility never carries over into a new run: right after every
\* transition into PLAYING (start from MENU, restart from GAMEOVER) the
\* player is not invincible
C22_NoCarriedInvincibility ==
    [][(game.state # PLAYING /\ game'.state = PLAYING)
         => ~game'.player.invincible]_vars
====
